---- MODULE Spec2Model ----
(***************************************************************************)
(* A model of the ASCII STL reader (stl_reader.cpp, triangle_mesh.hpp):    *)
(* the geometric primitives, Triangle, TriangleMesh and the token state    *)
(* machine of STLParser::to_triangle_mesh.                                 *)
(*                                                                         *)
(* Numbers.  A C++ double is modelled as a fixed-point integer with        *)
(* resolution 1/Scale = 0.0001, so the tolerance EPS = 0.001 of the source *)
(* is 10 units.  Every input of the model is chosen so that no comparison  *)
(* against EPS is decided by the rounding of the last unit.                *)
(***************************************************************************)
EXTENDS Integers, Sequences, FiniteSets, TLC

VARIABLES
    content,    \* STLParser::content, as the token sequence the file holds
    tokens,     \* STLParser::tokens
    state,      \* STLParser::state
    cnt,        \* to_triangle_mesh: the token index (0-based, as in the code)
    tri,        \* to_triangle_mesh: the working Triangle / the Triangle under test
    mesh_tmp,   \* to_triangle_mesh: the working TriangleMesh
    mesh,       \* the caller's TriangleMesh / the TriangleMesh under test
    pc,         \* "idle", "run", "returned", "thrown" (parser); "api" (object API)
    err,        \* what() of the exception in flight, "" when none
    op,         \* the last member function called on the objects under test
    ret         \* what that member function returned

vars == <<content, tokens, state, cnt, tri, mesh_tmp, mesh, pc, err, op, ret>>

----------------------------------------------------------------------------
(* Bounds of the model *)

\* the largest number of facets of a generated file
MaxFacets == 2
\* every token sequence up to this length over ShortAlphabet is an input
MaxShort == 3
\* the largest number of triangles add_triangle is called with in the API model
MaxTriangles == 2

----------------------------------------------------------------------------
(* Numbers *)

\* const double EPS = 0.001, in units of 1/Scale
EPS == 10
Scale == 1000 * EPS

Abs(a) == IF a < 0 THEN -a ELSE a

\* a / b rounded to the nearest unit, b > 0
DivRound(a, b) ==
    IF a >= 0 THEN (a + b \div 2) \div b ELSE -((-a + b \div 2) \div b)

RECURSIVE SqrtSearch(_, _, _)
\* the largest r in lo..hi with r * r <= n
SqrtSearch(n, lo, hi) ==
    IF lo >= hi THEN lo
    ELSE LET mid == (lo + hi + 1) \div 2
         IN  IF mid * mid <= n THEN SqrtSearch(n, mid, hi)
             ELSE SqrtSearch(n, lo, mid - 1)

\* sqrt of a fixed-point square (n is in units of 1/Scale^2), to the nearest unit
Sqrt(n) ==
    LET r == SqrtSearch(n, 0, 46340)
    IN  IF n - r * r > r THEN r + 1 ELSE r

----------------------------------------------------------------------------
(* struct Point and the static functions *)

Pt(a, b, c) == [x |-> a, y |-> b, z |-> c]

Ok(v) == [thrown |-> FALSE, val |-> v, what |-> ""]
Throw(msg) == [thrown |-> TRUE, val |-> FALSE, what |-> msg]

MsgUnitVector == "Point::unit_vector: tried to normalized Point(0, 0, 0)"
MsgAddVertex == "Triangle::add_vertex: Tried to add fourth vertex of triangle."
MsgCalcNormal == "Triangle::calculate_facet_normal(): Not enough vertices associated with triangle."
MsgAddTriangle == "Triangle::add_triagle: tried to add an invalid triangle (triangle check failed)"
MsgCoordinates == "STLParser::to_triangle_mesh: file format error - could not parse coordinates"
MsgSolidName == "STLParser::to_triangle_mesh: file format error - could not parse solid's name"
MsgSolid == "STLParser::to_triangle_mesh: keyword 'facet' or keyword 'endsolid' expected, but not found."
MsgFacet == "STLParser::to_triangle_mesh: file format error - double keyword 'facet normal' is not complete"
MsgOuterLoop == "STLParser::to_triangle_mesh: file format error - keyword 'outer loop' is not complete or missing"
MsgInvalidTriangle == "STLParser::to_triangle_mesh: file format error - tried to create invalid triangle."
MsgLoop == "STLParser::to_triangle_mesh: file format error - invalid 'outer loop' segment"
MsgNeverEnded == "STLParser::to_triangle_mesh: file format error - solid segment was never ended"
\* std::stod's std::out_of_range: a std::logic_error, not a std::runtime_error
MsgOutOfRange == "stod"

PointSub(p, q) == Pt(p.x - q.x, p.y - q.y, p.z - q.z)

PointEq(p, q) ==
    /\ Abs(q.x - p.x) < EPS
    /\ Abs(q.y - p.y) < EPS
    /\ Abs(q.z - p.z) < EPS

PointNe(p, q) == ~PointEq(p, q)

cross_product(p, q) ==
    Pt(DivRound(p.y * q.z - p.z * q.y, Scale),
       DivRound(p.z * q.x - p.x * q.z, Scale),
       DivRound(p.x * q.y - p.y * q.x, Scale))

norm(p) == Sqrt(p.x * p.x + p.y * p.y + p.z * p.z)

unit_vector(p) ==
    LET pnorm == norm(p)
    IN  IF Abs(pnorm) < EPS THEN Throw(MsgUnitVector)
        ELSE Ok(Pt(DivRound(p.x * Scale, pnorm),
                   DivRound(p.y * Scale, pnorm),
                   DivRound(p.z * Scale, pnorm)))

----------------------------------------------------------------------------
(* class Triangle *)

NewTriangle == [vertices |-> <<>>, facet_normal |-> Pt(0, 0, 0)]

\* add_vertex without the limit of three vertices
add_vertex_NoLimit(t, vertex) == Ok([t EXCEPT !.vertices = Append(@, vertex)])

add_vertex(t, vertex) ==
    IF Len(t.vertices) < 3
    THEN Ok([t EXCEPT !.vertices = Append(@, vertex)])
    ELSE Throw(MsgAddVertex)

\* clear_vertices that leaves the vertices
clear_vertices_Keep(t) == t

clear_vertices(t) == [t EXCEPT !.vertices = <<>>]

set_facet_normal(t, normal) ==
    IF Scale - Abs(norm(normal)) < EPS
    THEN Ok([t EXCEPT !.facet_normal = normal])
    ELSE LET u == unit_vector(normal)
         IN  IF u.thrown THEN u ELSE Ok([t EXCEPT !.facet_normal = u.val])

calculate_facet_normal(t) ==
    IF Len(t.vertices) = 3
    THEN LET vec1 == PointSub(t.vertices[2], t.vertices[1])
             vec2 == PointSub(t.vertices[3], t.vertices[1])
         IN  unit_vector(cross_product(vec1, vec2))
    ELSE Throw(MsgCalcNormal)

\* check_triangle without the comparison of the normals
check_triangle_CountOnly(t) == Ok(Len(t.vertices) = 3)

check_triangle(t) ==
    IF Len(t.vertices) # 3 THEN Ok(FALSE)
    ELSE LET c == calculate_facet_normal(t)
         IN  IF c.thrown THEN c
             ELSE IF PointNe(c.val, t.facet_normal) THEN Ok(FALSE)
             ELSE Ok(TRUE)

----------------------------------------------------------------------------
(* class TriangleMesh *)

NewMesh == [triangles |-> <<>>, triangle_count |-> 0, name |-> ""]

\* add_triangle without the check
add_triangle_Unchecked(m, t) ==
    Ok([m EXCEPT !.triangles = Append(@, t), !.triangle_count = @ + 1])

\* add_triangle that stores the triangle and leaves the count
add_triangle_NoCount(m, t) ==
    LET c == check_triangle(t)
    IN  IF c.thrown THEN c
        ELSE IF c.val = TRUE
        THEN Ok([m EXCEPT !.triangles = Append(@, t)])
        ELSE Throw(MsgAddTriangle)

add_triangle(m, t) ==
    LET c == check_triangle(t)
    IN  IF c.thrown THEN c
        ELSE IF c.val = TRUE
        THEN Ok([m EXCEPT !.triangles = Append(@, t),
                          !.triangle_count = @ + 1])
        ELSE Throw(MsgAddTriangle)

set_name(m, n) == [m EXCEPT !.name = n]

get_triangle_count(m) == m.triangle_count

----------------------------------------------------------------------------
(* class STLParser: std::stod and parse_coordinates *)

States == {"OUTSIDE", "SOLID", "FACET", "NORMAL", "NORMAL_COORD", "OUTER",
           "LOOP", "END"}

\* the tokens std::stod converts entirely
NumberValue ==
    ("0" :> 0) @@ ("1" :> Scale) @@ ("-1" :> -Scale) @@ ("2" :> 2 * Scale)
    @@ ("0.5" :> Scale \div 2) @@ ("0.577" :> 577 * EPS)

\* the tokens std::stod converts a prefix of, ignoring the rest
PrefixValue == ("1abc" :> Scale)

\* the tokens whose value no double holds
OutOfRange == {"1e999"}

MsgInvalidArgument == "stod: invalid_argument"

stod(tok) ==
    IF tok \in DOMAIN NumberValue THEN Ok(NumberValue[tok])
    ELSE IF tok \in DOMAIN PrefixValue THEN Ok(PrefixValue[tok])
    ELSE IF tok \in OutOfRange THEN Throw(MsgOutOfRange)
    ELSE Throw(MsgInvalidArgument)

\* tokens[i] of the code (0-based)
At(toks, i) == toks[i + 1]

\* catch(invalid_argument&) rethrows as a runtime_error; out_of_range passes
Rethrow(r) == IF r.what = MsgInvalidArgument THEN Throw(MsgCoordinates) ELSE r

parse_coordinates(toks, token_cnt) ==
    IF token_cnt + 2 < Len(toks)
    THEN LET coordx == stod(At(toks, token_cnt))
             coordy == stod(At(toks, token_cnt + 1))
             coordz == stod(At(toks, token_cnt + 2))
         IN  IF coordx.thrown THEN Rethrow(coordx)
             ELSE IF coordy.thrown THEN Rethrow(coordy)
             ELSE IF coordz.thrown THEN Rethrow(coordz)
             ELSE Ok(Pt(coordx.val, coordy.val, coordz.val))
    ELSE Throw(MsgCoordinates)

----------------------------------------------------------------------------
(* The files the parser is run on *)

RECURSIVE Flatten(_)
Flatten(ss) == IF ss = <<>> THEN <<>> ELSE Head(ss) \o Flatten(Tail(ss))

RECURSIVE SeqsUpTo(_, _)
\* the sequences over S of length 0..n
SeqsUpTo(S, n) ==
    IF n = 0 THEN {<<>>}
    ELSE LET shorter == SeqsUpTo(S, n - 1)
         IN  shorter \cup {Append(s, e) : s \in {q \in shorter : Len(q) = n - 1}, e \in S}

PA == <<"0", "0", "0">>
PB == <<"1", "0", "0">>
PC == <<"0", "1", "0">>
PD == <<"0", "0", "1">>

LoopText(n, v1, v2, v3) ==
    <<"normal">> \o n \o <<"outer", "loop", "vertex">> \o v1 \o <<"vertex">> \o v2
    \o <<"vertex">> \o v3 \o <<"endloop">>

GoodLoop == LoopText(<<"0", "0", "1">>, PA, PB, PC)
\* a loop with a fourth vertex entry
FourVertexLoop ==
    SubSeq(GoodLoop, 1, Len(GoodLoop) - 1) \o <<"vertex">> \o PD \o <<"endloop">>
OtherGoodLoop == LoopText(<<"1", "0", "0">>, PA, PC, PD)

\* `normal ... endloop` segments: right-handed, left-handed, collinear, and
\* declared normals of norm 2, 0.5, 0 and rounded to three digits
LoopTexts ==
    { GoodLoop,
      OtherGoodLoop,
      LoopText(<<"0", "0", "1">>, PA, PC, PB),
      LoopText(<<"0", "0", "1">>, PA, PB, PB),
      LoopText(<<"0", "0", "2">>, PA, PB, PC),
      LoopText(<<"0", "0", "0.5">>, PA, PB, PC),
      LoopText(<<"0", "0", "0">>, PA, PB, PC),
      LoopText(<<"0.577", "0.577", "0.577">>, PB, PC, PD),
      FourVertexLoop }

\* `facet ... endfacet` segments: one loop each, and the shapes with no loop
\* and with two loops
FacetTexts ==
    { <<"facet">> \o l \o <<"endfacet">> : l \in LoopTexts }
    \cup { <<"facet", "endfacet">>,
           <<"facet">> \o GoodLoop \o OtherGoodLoop \o <<"endfacet">>,
           <<"facet">> \o OtherGoodLoop \o LoopText(<<"0", "0", "1">>, PA, PC, PB)
               \o <<"endfacet">> }

Headers == {<<"solid", "cube">>, <<"solid">>}

\* solids of up to MaxFacets facets
Solids ==
    { h \o Flatten(fs) \o <<"endsolid">> :
        h \in Headers, fs \in SeqsUpTo(FacetTexts, MaxFacets) }

RECURSIVE Repeat(_, _)
Repeat(s, n) == IF n = 0 THEN <<>> ELSE s \o Repeat(s, n - 1)

\* the solids every facet of which is the same right-handed triangle
PlainSolids ==
    { h \o Repeat(<<"facet">> \o GoodLoop \o <<"endfacet">>, n) \o <<"endsolid">> :
        h \in Headers, n \in 0..MaxFacets }

Alphabet ==
    {"solid", "facet", "normal", "outer", "loop", "vertex", "endloop", "endfacet",
     "endsolid", "cube", "0", "1", "1abc", "1e999"}

ShortAlphabet == {"solid", "facet", "endsolid", "endfacet", "normal", "cube", "0"}

Replace(s, i, t) == [s EXCEPT ![i] = t]
Insert(s, i, t) == SubSeq(s, 1, i - 1) \o <<t>> \o SubSeq(s, i, Len(s))
Delete(s, i) == SubSeq(s, 1, i - 1) \o SubSeq(s, i + 1, Len(s))

\* a plain solid with one token replaced, inserted or deleted, or cut short
Edited ==
    UNION { { Replace(s, i, t) : i \in 1..Len(s), t \in Alphabet }
            \cup { Insert(s, i, t) : i \in 1..Len(s) + 1, t \in Alphabet }
            \cup { Delete(s, i) : i \in 1..Len(s) }
            \cup { SubSeq(s, 1, i) : i \in 0..Len(s) } : s \in PlainSolids }

Suffixes ==
    { <<"cube">>, <<"facet">>, <<"endsolid">>, <<"solid", "cube", "endsolid">>,
      <<"solid", "cube", "facet">> \o OtherGoodLoop \o <<"endfacet", "endsolid">>,
      <<"solid", "cube", "facet", "normal", "cube">> }

\* a plain solid followed by more tokens
Continued == { s \o x : s \in PlainSolids, x \in Suffixes }

Inputs == Solids \cup Edited \cup Continued \cup SeqsUpTo(ShortAlphabet, MaxShort)

\* a mesh a caller may hand to to_triangle_mesh: a new one, or one in use
OldTriangle ==
    [vertices |-> <<Pt(0, 0, 0), Pt(0, Scale, 0), Pt(0, 0, Scale)>>,
     facet_normal |-> Pt(Scale, 0, 0)]
OldMesh == [triangles |-> <<OldTriangle>>, triangle_count |-> 1, name |-> "old"]

----------------------------------------------------------------------------
(* STLParser::to_triangle_mesh: the body of the token loop, one case per state. *)
(* L holds the locals the loop works on: [state, cnt, tri, mesh_tmp].          *)

Locals(s, c, t, m) == [state |-> s, cnt |-> c, tri |-> t, mesh_tmp |-> m]

\* the locals on entry to the loop
EntryLocals == Locals("OUTSIDE", 0, NewTriangle, NewMesh)

\* an iteration that ends without the cnt++
Advance_Stay(L) == Ok(L)

\* the cnt++ that ends every iteration
Advance(L) == Ok([L EXCEPT !.cnt = @ + 1])

CaseOutside(toks, L) ==
    IF At(toks, L.cnt) = "solid"
    THEN IF L.cnt + 1 < Len(toks)
         THEN IF At(toks, L.cnt + 1) = "facet"
              THEN Advance([L EXCEPT !.mesh_tmp = set_name(@, "no name"),
                                     !.state = "SOLID"])
              ELSE Advance([L EXCEPT !.mesh_tmp = set_name(@, At(toks, L.cnt + 1)),
                                     !.cnt = @ + 1,
                                     !.state = "SOLID"])
         ELSE Throw(MsgSolidName)
    ELSE Advance(L)

\* case SOLID that skips a token it does not expect, as case OUTSIDE does
CaseSolid_Skip(toks, L) ==
    IF At(toks, L.cnt) = "facet" THEN Advance([L EXCEPT !.state = "FACET"])
    ELSE IF At(toks, L.cnt) = "endsolid" THEN Advance([L EXCEPT !.state = "END"])
    ELSE Advance(L)

CaseSolid(toks, L) ==
    IF At(toks, L.cnt) = "facet" THEN Advance([L EXCEPT !.state = "FACET"])
    ELSE IF At(toks, L.cnt) = "endsolid" THEN Advance([L EXCEPT !.state = "END"])
    ELSE Throw(MsgSolid)

CaseFacet(toks, L) ==
    IF At(toks, L.cnt) = "normal" THEN Advance([L EXCEPT !.state = "NORMAL"])
    ELSE IF At(toks, L.cnt) = "endfacet" THEN Advance([L EXCEPT !.state = "SOLID"])
    ELSE Throw(MsgFacet)

\* case NORMAL that reads the three numbers and does not set the normal
CaseNormal_NoSet(toks, L) ==
    LET facet_normal == parse_coordinates(toks, L.cnt)
    IN  IF facet_normal.thrown THEN facet_normal
        ELSE Advance([L EXCEPT !.state = "NORMAL_COORD", !.cnt = @ + 2])

CaseNormal(toks, L) ==
    LET facet_normal == parse_coordinates(toks, L.cnt)
    IN  IF facet_normal.thrown THEN facet_normal
        ELSE LET set == set_facet_normal(L.tri, facet_normal.val)
             IN  IF set.thrown THEN set
                 ELSE Advance([L EXCEPT !.tri = set.val,
                                        !.state = "NORMAL_COORD",
                                        !.cnt = @ + 2])

CaseNormalCoord(toks, L) ==
    IF At(toks, L.cnt) = "outer" THEN Advance([L EXCEPT !.state = "OUTER"])
    ELSE Throw(MsgOuterLoop)

CaseOuter(toks, L) ==
    IF At(toks, L.cnt) = "loop" THEN Advance([L EXCEPT !.state = "LOOP"])
    ELSE Throw(MsgOuterLoop)

CaseLoop(toks, L) ==
    IF At(toks, L.cnt) = "vertex"
    THEN LET vertex == parse_coordinates(toks, L.cnt + 1)
         IN  IF vertex.thrown THEN vertex
             ELSE LET added == add_vertex(L.tri, vertex.val)
                  IN  IF added.thrown THEN added
                      ELSE Advance([L EXCEPT !.tri = added.val, !.cnt = @ + 3])
    ELSE IF At(toks, L.cnt) = "endloop"
    THEN LET checked == check_triangle(L.tri)
         IN  IF checked.thrown THEN checked
             ELSE IF checked.val = TRUE
             THEN LET added == add_triangle(L.mesh_tmp, L.tri)
                  IN  IF added.thrown THEN added
                      ELSE Advance([L EXCEPT !.mesh_tmp = added.val,
                                             !.tri = clear_vertices(@),
                                             !.state = "FACET"])
             ELSE Throw(MsgInvalidTriangle)
    ELSE Throw(MsgLoop)

\* case END that goes on to the next solid
CaseEnd_Restart(toks, L) == Advance([L EXCEPT !.state = "OUTSIDE"])

\* cnt = tokens.size(): all further solids are ignored
CaseEnd(toks, L) == Advance([L EXCEPT !.cnt = Len(toks)])

\* switch(state)
LoopBody(toks, L) ==
    CASE L.state = "OUTSIDE" -> CaseOutside(toks, L)
      [] L.state = "SOLID" -> CaseSolid(toks, L)
      [] L.state = "FACET" -> CaseFacet(toks, L)
      [] L.state = "NORMAL" -> CaseNormal(toks, L)
      [] L.state = "NORMAL_COORD" -> CaseNormalCoord(toks, L)
      [] L.state = "OUTER" -> CaseOuter(toks, L)
      [] L.state = "LOOP" -> CaseLoop(toks, L)
      [] L.state = "END" -> CaseEnd(toks, L)

\* the end of to_triangle_mesh without the final state check
AfterLoop_NoCheck(L) == Ok(L.mesh_tmp)

\* after the loop: if(state != END) throw; the mesh that is moved to the caller
AfterLoop(L) == IF L.state # "END" THEN Throw(MsgNeverEnded) ELSE Ok(L.mesh_tmp)

RECURSIVE RunLoop(_, _)
\* while(cnt < tokens.size()) { ... } and what follows it
RunLoop(toks, L) ==
    IF L.cnt < Len(toks)
    THEN LET r == LoopBody(toks, L)
         IN  IF r.thrown THEN r ELSE RunLoop(toks, r.val)
    ELSE AfterLoop(L)

\* the outcome of to_triangle_mesh on a token sequence: the mesh, or the exception
to_triangle_mesh(toks) == RunLoop(toks, EntryLocals)

----------------------------------------------------------------------------
(* STLParser::to_triangle_mesh as a state machine: one step per iteration *)

Init ==
    /\ content \in Inputs
    /\ tokens = <<>>
    /\ state \in States
    /\ cnt = 0
    /\ tri = NewTriangle
    /\ mesh_tmp = NewMesh
    /\ mesh \in {NewMesh, OldMesh}
    /\ pc = "idle"
    /\ err = ""
    /\ op = "none"
    /\ ret = Ok(FALSE)

\* the call without state = OUTSIDE: the loop starts in the state the member holds
Call_KeepState ==
    /\ pc \in {"idle", "returned", "thrown"}
    /\ tokens' = content
    /\ state' = state
    /\ cnt' = EntryLocals.cnt
    /\ tri' = EntryLocals.tri
    /\ mesh_tmp' = EntryLocals.mesh_tmp
    /\ pc' = "run"
    /\ err' = ""
    /\ UNCHANGED <<content, mesh, op, ret>>

\* the call: tokenize, construct mesh_tmp and tri, state = OUTSIDE, cnt = 0
Call ==
    /\ pc \in {"idle", "returned", "thrown"}
    /\ tokens' = content
    /\ state' = EntryLocals.state
    /\ cnt' = EntryLocals.cnt
    /\ tri' = EntryLocals.tri
    /\ mesh_tmp' = EntryLocals.mesh_tmp
    /\ pc' = "run"
    /\ err' = ""
    /\ UNCHANGED <<content, mesh, op, ret>>

InLoop(s) == pc = "run" /\ cnt < Len(tokens) /\ state = s

\* one iteration: the locals change, or the exception leaves to_triangle_mesh
Iterate(r) ==
    IF r.thrown
    THEN /\ pc' = "thrown"
         /\ err' = r.what
         /\ UNCHANGED <<content, tokens, state, cnt, tri, mesh_tmp, mesh, op, ret>>
    ELSE /\ state' = r.val.state
         /\ cnt' = r.val.cnt
         /\ tri' = r.val.tri
         /\ mesh_tmp' = r.val.mesh_tmp
         /\ UNCHANGED <<content, tokens, mesh, pc, err, op, ret>>

Here == Locals(state, cnt, tri, mesh_tmp)

StepOutside == InLoop("OUTSIDE") /\ Iterate(CaseOutside(tokens, Here))

StepSolid == InLoop("SOLID") /\ Iterate(CaseSolid(tokens, Here))

StepFacet == InLoop("FACET") /\ Iterate(CaseFacet(tokens, Here))

StepNormal == InLoop("NORMAL") /\ Iterate(CaseNormal(tokens, Here))

StepNormalCoord == InLoop("NORMAL_COORD") /\ Iterate(CaseNormalCoord(tokens, Here))

StepOuter == InLoop("OUTER") /\ Iterate(CaseOuter(tokens, Here))

StepLoop == InLoop("LOOP") /\ Iterate(CaseLoop(tokens, Here))

StepEnd == InLoop("END") /\ Iterate(CaseEnd(tokens, Here))

\* the end of to_triangle_mesh with the move before the final state check
Finish_MoveFirst ==
    /\ pc = "run"
    /\ ~(cnt < Len(tokens))
    /\ mesh' = mesh_tmp
    /\ IF state # "END"
       THEN pc' = "thrown" /\ err' = MsgNeverEnded
       ELSE pc' = "returned" /\ err' = err
    /\ UNCHANGED <<content, tokens, state, cnt, tri, mesh_tmp, op, ret>>

\* the loop has ended: the final state check and mesh = std::move(mesh_tmp)
Finish ==
    /\ pc = "run"
    /\ ~(cnt < Len(tokens))
    /\ LET r == AfterLoop(Here)
       IN  IF r.thrown
           THEN /\ pc' = "thrown"
                /\ err' = r.what
                /\ UNCHANGED <<content, tokens, state, cnt, tri, mesh_tmp, mesh, op, ret>>
           ELSE /\ mesh' = r.val
                /\ pc' = "returned"
                /\ UNCHANGED <<content, tokens, state, cnt, tri, mesh_tmp, err, op, ret>>

Next ==
    \/ Call
    \/ StepOutside
    \/ StepSolid
    \/ StepFacet
    \/ StepNormal
    \/ StepNormalCoord
    \/ StepOuter
    \/ StepLoop
    \/ StepEnd
    \/ Finish

Spec == Init /\ [][Next]_vars

----------------------------------------------------------------------------
(* Triangle and TriangleMesh driven through their public member functions *)

TestVertices == {Pt(0, 0, 0), Pt(Scale, 0, 0), Pt(0, Scale, 0)}

\* normals of norm 1, 2, 0.5, 0 and 1.0009
TestNormals ==
    {Pt(0, 0, Scale), Pt(0, 0, 2 * Scale), Pt(0, 0, Scale \div 2), Pt(0, 0, 0),
     Pt(0, 0, Scale + 9)}

TestNames == {"part"}

InitApi ==
    /\ content = <<>>
    /\ tokens = <<>>
    /\ state = "OUTSIDE"
    /\ cnt = 0
    /\ tri = NewTriangle
    /\ mesh_tmp = NewMesh
    /\ mesh = NewMesh
    /\ pc = "api"
    /\ err = ""
    /\ op = "none"
    /\ ret = Ok(FALSE)

Parser == <<content, tokens, state, cnt, mesh_tmp, pc, err>>

\* a call of a member function of tri: r is its outcome
OnTriangle(name, r) ==
    /\ pc = "api"
    /\ op' = name
    /\ IF r.thrown
       THEN tri' = tri /\ ret' = r
       ELSE tri' = r.val /\ ret' = Ok(FALSE)
    /\ UNCHANGED <<mesh, Parser>>

\* a call of a const member function, or one that returns a value
Query(name, r) ==
    /\ pc = "api"
    /\ op' = name
    /\ ret' = r
    /\ UNCHANGED <<tri, mesh, Parser>>

ApiAddVertex == \E v \in TestVertices : OnTriangle("add_vertex", add_vertex(tri, v))

ApiClearVertices == OnTriangle("clear_vertices", Ok(clear_vertices(tri)))

ApiSetFacetNormal ==
    \E n \in TestNormals : OnTriangle("set_facet_normal", set_facet_normal(tri, n))

ApiCalculateFacetNormal == Query("calculate_facet_normal", calculate_facet_normal(tri))

ApiCheckTriangle == Query("check_triangle", check_triangle(tri))

ApiAddTriangle ==
    /\ pc = "api"
    /\ Len(mesh.triangles) < MaxTriangles
    /\ LET r == add_triangle(mesh, tri)
       IN  /\ op' = "add_triangle"
           /\ IF r.thrown
              THEN mesh' = mesh /\ ret' = r
              ELSE mesh' = r.val /\ ret' = Ok(FALSE)
    /\ UNCHANGED <<tri, Parser>>

ApiSetName ==
    \E n \in TestNames :
        /\ pc = "api"
        /\ op' = "set_name"
        /\ mesh' = set_name(mesh, n)
        /\ ret' = Ok(FALSE)
        /\ UNCHANGED <<tri, Parser>>

ApiGetTriangleCount == Query("get_triangle_count", Ok(get_triangle_count(mesh)))

NextApi ==
    \/ ApiAddVertex
    \/ ApiClearVertices
    \/ ApiSetFacetNormal
    \/ ApiCalculateFacetNormal
    \/ ApiCheckTriangle
    \/ ApiAddTriangle
    \/ ApiSetName
    \/ ApiGetTriangleCount

SpecApi == InitApi /\ [][NextApi]_vars

\* the parser and the objects, together
SpecAll == (Init \/ InitApi) /\ [][Next \/ NextApi]_vars

----------------------------------------------------------------------------
(* The error kinds of the messages *)

GrammarViolation == {MsgSolidName, MsgSolid, MsgFacet, MsgOuterLoop, MsgLoop}
CoordinateParseError == {MsgCoordinates}
UnterminatedSolid == {MsgNeverEnded}

Ended == pc \in {"returned", "thrown"}

----------------------------------------------------------------------------
(* C1 *)

\* C1: atomic output.  No step of to_triangle_mesh changes the caller's mesh,
\* except the one that ends the call successfully: it is taken after the token
\* loop has ended with state = END and it writes the working mesh.  So after a
\* call that raised an error the caller's mesh is what it was before the call.
C1_AtomicOutput ==
    [][ \/ mesh' = mesh
        \/ /\ pc = "run" /\ pc' = "returned"
           /\ ~(cnt < Len(tokens))
           /\ state = "END"
           /\ mesh' = mesh_tmp ]_vars

\* a parse has failed after it had put a triangle in the working mesh, and the
\* caller's mesh is one that was in use
C1_Witness ==
    /\ pc = "thrown"
    /\ mesh_tmp.triangle_count > 0
    /\ mesh = OldMesh

----------------------------------------------------------------------------
(* C2 *)

\* C2: unterminated solid.  When the tokens are consumed to the end and the
\* state is not END, the call fails with the `solid segment was never ended`
\* error; the state becomes END only by an `endsolid` read in state SOLID, and
\* the call returns successfully only in state END.
C2_UnterminatedSolid ==
    [][ /\ (pc = "run" /\ ~(cnt < Len(tokens)) /\ state # "END")
            => (pc' = "thrown" /\ err' = MsgNeverEnded)
        /\ (pc = "run" /\ state' = "END" /\ state # "END")
            => (state = "SOLID" /\ cnt < Len(tokens) /\ At(tokens, cnt) = "endsolid")
        /\ (pc' = "returned" /\ pc # "returned")
            => (pc = "run" /\ state = "END") ]_vars

\* the tokens ran out in the middle of a vertex list
C2_Witness ==
    /\ pc = "thrown"
    /\ err = MsgNeverEnded
    /\ state = "LOOP"
    /\ Len(tri.vertices) = 3

----------------------------------------------------------------------------
(* C3 *)

\* C3: missing `solid`.  A call on a token sequence that is empty or whose first
\* token is not `solid` fails, in state OUTSIDE, with a grammar violation.
C3_MissingSolid ==
    (Ended /\ (tokens = <<>> \/ Head(tokens) # "solid"))
        => (pc = "thrown" /\ state = "OUTSIDE" /\ err \in GrammarViolation)

----------------------------------------------------------------------------
(* C4 *)

IsNumber(t) == t \in DOMAIN NumberValue

NumbersAt(s, i) == IsNumber(s[i]) /\ IsNumber(s[i + 1]) /\ IsNumber(s[i + 2])

VertexAt(s, i) == s[i] = "vertex" /\ NumbersAt(s, i + 1)

\* facet normal n n n outer loop (vertex x y z) x 3 endloop endfacet: 21 tokens
FacetAt(s, i) ==
    /\ i + 20 <= Len(s)
    /\ s[i] = "facet" /\ s[i + 1] = "normal" /\ NumbersAt(s, i + 2)
    /\ s[i + 5] = "outer" /\ s[i + 6] = "loop"
    /\ VertexAt(s, i + 7) /\ VertexAt(s, i + 11) /\ VertexAt(s, i + 15)
    /\ s[i + 19] = "endloop" /\ s[i + 20] = "endfacet"

RECURSIVE FacetsAt(_, _)
\* ( facet ... endfacet )* endsolid, from token i on
FacetsAt(s, i) ==
    /\ i <= Len(s)
    /\ \/ s[i] = "endsolid"
       \/ FacetAt(s, i) /\ FacetsAt(s, i + 21)

\* a prefix of s is solid [name] ( facet ... endfacet )* endsolid
InGrammar(s) ==
    /\ s # <<>>
    /\ Head(s) = "solid"
    /\ FacetsAt(s, 2) \/ FacetsAt(s, 3)

\* C4: grammar strictness.  A call returns successfully only when a prefix of the
\* tokens has the form solid [name] ( facet normal n n n outer loop vertex x y z
\* vertex x y z vertex x y z endloop endfacet )* endsolid.
C4_GrammarStrictness == pc = "returned" => InGrammar(tokens)

----------------------------------------------------------------------------
(* C5 *)

ParsesTo(s) == to_triangle_mesh(s)

\* the prefixes of the tokens that end with `endsolid` and parse successfully
FirstSolids ==
    { e \in 1..Len(tokens) :
        tokens[e] = "endsolid" /\ ~ParsesTo(SubSeq(tokens, 1, e)).thrown }

\* C5: multi-solid truncation.  When a prefix P of the tokens ends with
\* `endsolid` and parses successfully, the call on all the tokens succeeds with
\* the mesh of P; and in state END no step raises an error or changes the
\* working mesh.
C5_MultiSolidTruncation ==
    /\ [](Ended => \A e \in FirstSolids :
                      /\ pc = "returned"
                      /\ mesh = ParsesTo(SubSeq(tokens, 1, e)).val)
    /\ [][(pc = "run" /\ state = "END")
            => (pc' # "thrown" /\ mesh_tmp' = mesh_tmp /\ state' = "END")]_vars

\* a solid with a facet has been returned from a file that goes on with a second
\* solid holding another facet
C5_Witness ==
    /\ pc = "returned"
    /\ mesh.triangle_count = 1
    /\ \E e \in FirstSolids :
          /\ e + 3 < Len(tokens)
          /\ tokens[e + 1] = "solid"
          /\ tokens[e + 3] = "facet"

----------------------------------------------------------------------------
(* C6 *)

\* normalize((v1 - v0) x (v2 - v0)) of three vertices
RightHandNormal(vs) ==
    unit_vector(cross_product(PointSub(vs[2], vs[1]), PointSub(vs[3], vs[1])))

ValidStored(t) ==
    /\ Len(t.vertices) = 3
    /\ ~RightHandNormal(t.vertices).thrown
    /\ PointEq(RightHandNormal(t.vertices).val, t.facet_normal)

AllValid(m) == \A i \in 1..Len(m.triangles) : ValidStored(m.triangles[i])

\* C6: mesh validity.  Every triangle stored in a mesh (the mesh add_triangle is
\* called on, the working mesh of a parse, the mesh a parse returned) has three
\* vertices and a stored normal equal, within EPS in each component, to the
\* normalized right-hand-rule normal of its vertices.
C6_MeshValidity == AllValid(mesh) /\ AllValid(mesh_tmp)

\* a mesh holds two triangles it accepted, one with a normal of norm 1.0009,
\* after add_triangle calls it refused
C6_Witness ==
    /\ pc = "api"
    /\ Len(mesh.triangles) = 2
    /\ mesh.triangles[1].facet_normal # mesh.triangles[2].facet_normal

----------------------------------------------------------------------------
(* C7 *)

\* the vertex count is not 3, or the computed normal differs from the stored one
FailsValidity(t) ==
    \/ Len(t.vertices) # 3
    \/ /\ ~RightHandNormal(t.vertices).thrown
       /\ ~PointEq(RightHandNormal(t.vertices).val, t.facet_normal)

\* C7: add_triangle on failure.  add_triangle(t) with a triangle whose vertex
\* count is not 3 or whose computed normal differs from its stored normal raises
\* the `tried to add an invalid triangle` error and leaves the triangles, the
\* count and the name of the mesh as they were.
C7_AddTriangleFailure ==
    [][(pc = "api" /\ op' = "add_triangle" /\ FailsValidity(tri))
         => (ret'.thrown /\ ret'.what = MsgAddTriangle /\ mesh' = mesh)]_vars

\* a triangle of three vertices and the opposite normal has been refused by a
\* named mesh that holds a triangle
C7_Witness ==
    /\ pc = "api"
    /\ op = "add_triangle"
    /\ ret.thrown
    /\ ret.what = MsgAddTriangle
    /\ Len(tri.vertices) = 3
    /\ Len(mesh.triangles) = 1
    /\ mesh.name = "part"

----------------------------------------------------------------------------
(* C8 *)

\* C8: check_triangle never raises: it returns true or false for every triangle.
C8_CheckNeverRaises == (pc = "api" /\ op = "check_triangle") => ~ret.thrown

----------------------------------------------------------------------------
(* C9 *)

\* C9: the stored normal is of unit length.  After a set_facet_normal call that
\* returned without error the stored normal has norm within EPS of 1.
C9_StoredNormalUnit ==
    (pc = "api" /\ op = "set_facet_normal" /\ ~ret.thrown)
        => Abs(norm(tri.facet_normal) - Scale) <= EPS

----------------------------------------------------------------------------
(* C10 *)

\* C10: fourth-vertex rejection.  A triangle never holds more than 3 vertices;
\* add_vertex on a triangle of 3 vertices raises the `fourth vertex` error and
\* leaves the triangle as it was; a parse that reads a `vertex` entry when the
\* working triangle holds 3 fails at that entry, with the `fourth vertex` error
\* when the entry's coordinates parse.
C10_FourthVertex ==
    /\ [](Len(tri.vertices) <= 3)
    /\ [][ /\ (pc = "api" /\ op' = "add_vertex" /\ Len(tri.vertices) = 3)
               => (ret'.thrown /\ ret'.what = MsgAddVertex /\ tri' = tri)
           /\ (InLoop("LOOP") /\ At(tokens, cnt) = "vertex" /\ Len(tri.vertices) = 3)
               => /\ pc' = "thrown"
                  /\ tri' = tri
                  /\ ~parse_coordinates(tokens, cnt + 1).thrown => err' = MsgAddVertex
         ]_vars

\* a parse has failed at the fourth vertex entry of a loop
C10_Witness ==
    /\ pc = "thrown"
    /\ err = MsgAddVertex
    /\ Len(tri.vertices) = 3
    /\ At(tokens, cnt) = "vertex"

----------------------------------------------------------------------------
(* C11 *)

\* three tokens exist at the 0-based indices i, i + 1, i + 2 and each is a number
ThreeNumbers(i) == i + 2 < Len(tokens) /\ NumbersAt(tokens, i + 1)

\* the index parse_coordinates is called with in the step about to be taken
CoordinatesRead ==
    IF InLoop("NORMAL") THEN {cnt}
    ELSE IF InLoop("LOOP") /\ At(tokens, cnt) = "vertex" THEN {cnt + 1}
    ELSE {}

\* C11: coordinate parsing.  When parse_coordinates(i) is called and fewer than
\* 3 tokens exist from i on, or one of the three is not a valid number (a
\* keyword, a number followed by other characters, a number out of range), the
\* call of to_triangle_mesh fails with the `could not parse coordinates`
\* runtime error; only three valid numbers make a Point.
C11_CoordinateParsing ==
    [][\A i \in CoordinatesRead :
          ~ThreeNumbers(i) => (pc' = "thrown" /\ err' = MsgCoordinates)]_vars

----------------------------------------------------------------------------
(* C12 *)

RECURSIVE FirstSolidFrom(_, _)
\* the 1-based index of the first `solid` of s from i on, Len(s) + 1 when none
FirstSolidFrom(s, i) ==
    IF i > Len(s) \/ s[i] = "solid" THEN i ELSE FirstSolidFrom(s, i + 1)

\* the token that follows the first `solid`
AfterSolid == tokens[FirstSolidFrom(tokens, 1) + 1]

\* the name rule: the name is the token after the first `solid`, or "no name"
\* when that token is `facet`
NameRule ==
    pc = "returned" =>
        mesh.name = (IF AfterSolid = "facet" THEN "no name" ELSE AfterSolid)

\* C12: the name rule, and an unnamed solid, the one with no facets
\* (`solid endsolid`) included, parses successfully with the name "no name".
C12_SolidName ==
    /\ NameRule
    /\ (Ended /\ tokens = <<"solid", "endsolid">>)
          => (pc = "returned" /\ mesh.name = "no name")


----------------------------------------------------------------------------
(* C13 *)

\* the point written by the three numbers at s[i], s[i + 1], s[i + 2]
PointAt(s, i) == Pt(NumberValue[s[i]], NumberValue[s[i + 1]], NumberValue[s[i + 2]])

\* the normal and the vertices written in the facet that starts at s[i]
DeclaredNormal(s, i) == PointAt(s, i + 2)
FacetVertices(s, i) == <<PointAt(s, i + 8), PointAt(s, i + 12), PointAt(s, i + 16)>>

\* the facet at s[i] declares the right-hand-rule normal of its vertices
RightHandFacetAt(s, i) ==
    /\ FacetAt(s, i)
    /\ ~RightHandNormal(FacetVertices(s, i)).thrown
    /\ PointEq(RightHandNormal(FacetVertices(s, i)).val, DeclaredNormal(s, i))

\* s is the whole of a single solid: a header of h tokens (`solid`, or `solid`
\* and a name), n right-handed facets, `endsolid`
WellFormedSolid(s, h, n) ==
    /\ Len(s) = h + 21 * n + 1
    /\ s[1] = "solid"
    /\ \A k \in 0..(n - 1) : RightHandFacetAt(s, h + 1 + 21 * k)
    /\ s[Len(s)] = "endsolid"

\* the mesh holds, in file order, the n facets of s that start after the header
OneTrianglePerLoop(s, h, n) ==
    /\ pc = "returned"
    /\ mesh.triangle_count = n
    /\ Len(mesh.triangles) = n
    /\ \A k \in 0..(n - 1) :
          /\ mesh.triangles[k + 1].vertices = FacetVertices(s, h + 1 + 21 * k)
          /\ PointEq(mesh.triangles[k + 1].facet_normal,
                     DeclaredNormal(s, h + 1 + 21 * k))

\* C13: one triangle per loop, in file order.  A call on a well-formed single
\* solid of n >= 0 right-handed facets returns a mesh of n triangles, the i-th
\* with the vertices of the i-th facet in file order and its declared normal.
C13_OneTrianglePerLoop ==
    Ended => \A h \in 1..2 : \A n \in 0..MaxFacets :
                WellFormedSolid(tokens, h, n) => OneTrianglePerLoop(tokens, h, n)


----------------------------------------------------------------------------
(* C14 *)

Counted(m) == m.triangle_count = Len(m.triangles)

\* C14: the triangle count.  In every mesh (the one add_triangle is called on,
\* the working mesh of a parse, the mesh a parse returned) triangle_count is
\* the number of stored triangles, and get_triangle_count returns that number.
C14_TriangleCount ==
    /\ Counted(mesh)
    /\ Counted(mesh_tmp)
    /\ (pc = "api" /\ op = "get_triangle_count") => ret.val = Len(mesh.triangles)

\* get_triangle_count has answered 2 on a mesh of two triangles
C14_Witness ==
    /\ pc = "api"
    /\ op = "get_triangle_count"
    /\ ret.val = 2
    /\ Len(mesh.triangles) = 2


----------------------------------------------------------------------------
(* C15 *)

\* the transitions of the table that only change the state
KeywordTable ==
    [SOLID        |-> [facet |-> "FACET", endsolid |-> "END"],
     FACET        |-> [normal |-> "NORMAL", endfacet |-> "SOLID"],
     NORMAL_COORD |-> [outer |-> "OUTER"],
     OUTER        |-> [loop |-> "LOOP"],
     LOOP         |-> << >>]

\* the error of a token the state does not expect
UnexpectedToken ==
    [SOLID        |-> MsgSolid,
     FACET        |-> MsgFacet,
     NORMAL_COORD |-> MsgOuterLoop,
     OUTER        |-> MsgOuterLoop,
     LOOP         |-> MsgLoop]

\* the step the table gives for token t in the current state
TableStep(t) ==
    IF t \in DOMAIN KeywordTable[state]
    THEN /\ pc' = "run"
         /\ state' = KeywordTable[state][t]
         /\ cnt' = cnt + 1
         /\ tri' = tri /\ mesh_tmp' = mesh_tmp
    ELSE IF state = "LOOP" /\ t = "vertex"
    THEN /\ (ThreeNumbers(cnt + 1) /\ Len(tri.vertices) < 3)
               => /\ pc' = "run"
                  /\ tri' = [tri EXCEPT !.vertices = Append(@, PointAt(tokens, cnt + 2))]
         /\ pc' = "run" => (state' = "LOOP" /\ cnt' = cnt + 4 /\ mesh_tmp' = mesh_tmp)
         /\ pc' = "thrown" => (state' = state /\ cnt' = cnt)
    ELSE IF state = "LOOP" /\ t = "endloop"
    THEN IF ValidStored(tri)
         THEN /\ pc' = "run"
              /\ state' = "FACET"
              /\ cnt' = cnt + 1
              /\ mesh_tmp'.triangles = Append(mesh_tmp.triangles, tri)
         ELSE pc' = "thrown" /\ state' = state /\ cnt' = cnt /\ mesh_tmp' = mesh_tmp
    ELSE /\ pc' = "thrown"
         /\ err' = UnexpectedToken[state]
         /\ state' = state /\ cnt' = cnt /\ tri' = tri /\ mesh_tmp' = mesh_tmp

\* C15: the transition table.  In states SOLID, FACET, NORMAL_COORD, OUTER and
\* LOOP an iteration of the parser is the step of the table: the listed keyword
\* moves to the listed state and consumes one token (`vertex` four, `endloop`
\* with a valid working triangle stores it); any other token raises the error
\* of the state at that token, with the state and the index unchanged.
C15_TransitionTable ==
    [][(pc = "run" /\ cnt < Len(tokens) /\ state \in DOMAIN KeywordTable)
          => TableStep(At(tokens, cnt))]_vars

\* a token other than `loop` has been rejected in state OUTER
C15_Witness ==
    /\ pc = "thrown"
    /\ state = "OUTER"
    /\ err = MsgOuterLoop
    /\ cnt < Len(tokens)
    /\ At(tokens, cnt) # "loop"
    /\ mesh_tmp.triangle_count = 1


----------------------------------------------------------------------------
(* C16 *)

\* the outcome of the call that has ended is the one to_triangle_mesh computes
\* from the file content alone
SameOutcome(r) ==
    /\ pc = "returned" => (~r.thrown /\ mesh = r.val)
    /\ pc = "thrown" => (r.thrown /\ err = r.what)

\* C16: parser state does not outlive a parse.  Every call on the same parser,
\* the first and every later one, whatever state, index and tokens the call
\* before it left in the member fields, ends with the mesh or the error that
\* the file content determines.
C16_RepeatedCall == Ended => SameOutcome(to_triangle_mesh(content))

\* a second call is under way: the first has returned its mesh, and the
\* working mesh of the second holds a triangle again
C16_Witness ==
    /\ pc = "run"
    /\ mesh.name = "cube"
    /\ mesh.triangle_count = 2
    /\ mesh_tmp.triangle_count = 1
    /\ state = "LOOP"


----------------------------------------------------------------------------
(* C17 *)

\* the point parse_coordinates makes of the tokens at the 0-based indices i, i + 1, i + 2
CoordinatesAt(i) ==
    Pt(stod(At(tokens, i)).val, stod(At(tokens, i + 1)).val, stod(At(tokens, i + 2)).val)

\* the 0-based index of the j-th (from 1) of the k `vertex` entries that end at cnt
VertexEntry(k, j) == cnt - 4 * (k - j + 1)

\* the working triangle holds the `vertex` entries read since the last `loop`
HoldsEntriesSinceLoop ==
    LET k == Len(tri.vertices)
    IN  /\ k <= 3
        /\ cnt - 4 * k >= 1
        /\ At(tokens, cnt - 4 * k - 1) = "loop"
        /\ \A j \in 1..k :
              /\ At(tokens, VertexEntry(k, j)) = "vertex"
              /\ tri.vertices[j] = CoordinatesAt(VertexEntry(k, j) + 1)

WorkingTriangleVertices ==
    /\ state # "LOOP" => tri.vertices = << >>
    /\ (pc \in {"run", "thrown"} /\ state = "LOOP") => HoldsEntriesSinceLoop

\* an `endloop` admits the working triangle: the three entries of its own loop
AdmitsOwnLoop ==
    (InLoop("LOOP") /\ state' = "FACET")
        => /\ Len(tri.vertices) = 3
           /\ mesh_tmp'.triangles = Append(mesh_tmp.triangles, tri)
           /\ tri'.vertices = << >>

\* C17: the working triangle never carries vertices across facets.  Outside
\* state LOOP it holds no vertex; in state LOOP it holds the 0 to 3 `vertex`
\* entries read since the last `loop`; and the triangle admitted at `endloop`
\* is the working triangle with the three vertices of its own loop.
C17_NoVerticesAcrossFacets ==
    [](WorkingTriangleVertices) /\ [][AdmitsOwnLoop]_vars

\* the three vertices of the second loop have been read
C17_Witness ==
    /\ pc = "run"
    /\ state = "LOOP"
    /\ Len(tri.vertices) = 3
    /\ mesh_tmp.triangle_count = 1
    /\ tri.vertices # mesh_tmp.triangles[1].vertices


----------------------------------------------------------------------------
(* C18 *)

\* the working triangle's normal is the one set_facet_normal stores for the
\* numbers of the `normal n n n` whose `normal` is at the 0-based index i
NormalSetFrom(i) ==
    /\ i >= 0
    /\ At(tokens, i) = "normal"
    /\ LET set == set_facet_normal(tri, CoordinatesAt(i + 1))
       IN  ~set.thrown /\ tri.facet_normal = set.val.facet_normal

\* the 0-based index of the `normal` that precedes the current position
PrecedingNormal ==
    CASE state = "NORMAL_COORD" -> cnt - 4
      [] state = "OUTER" -> cnt - 5
      [] state = "LOOP" -> cnt - 4 * Len(tri.vertices) - 6

\* C18: no stale normal.  From the read of `normal n n n` to the `endloop` of
\* the loop that follows it (states NORMAL_COORD, OUTER and LOOP) the working
\* triangle's normal is the one set from those three numbers, which stand
\* immediately before the `outer loop` of that loop: never the initial
\* (0,0,0) normal or the normal of an earlier loop.
C18_NoStaleNormal ==
    (pc \in {"run", "thrown"} /\ state \in {"NORMAL_COORD", "OUTER", "LOOP"})
        => /\ NormalSetFrom(PrecedingNormal)
           /\ state = "OUTER" => At(tokens, cnt - 1) = "outer"
           /\ state = "LOOP" =>
                 /\ At(tokens, cnt - 4 * Len(tri.vertices) - 2) = "outer"
                 /\ At(tokens, cnt - 4 * Len(tri.vertices) - 1) = "loop"

\* the second loop is about to be checked against a normal other than the
\* one of the first
C18_Witness ==
    /\ pc = "run"
    /\ state = "LOOP"
    /\ Len(tri.vertices) = 3
    /\ cnt < Len(tokens)
    /\ At(tokens, cnt) = "endloop"
    /\ mesh_tmp.triangle_count = 1
    /\ tri.facet_normal # mesh_tmp.triangles[1].facet_normal


----------------------------------------------------------------------------
(* C19 *)

\* the token indices (0-based) parse_coordinates reads with no bound check
CoordinateReads_NoGuard(toks, token_cnt) == token_cnt..(token_cnt + 2)

\* the token indices (0-based) parse_coordinates reads: none unless
\* token_cnt + 2 < tokens.size(), then one after the other until a stod throws
CoordinateReads(toks, token_cnt) ==
    IF token_cnt + 2 < Len(toks)
    THEN {token_cnt}
         \cup (IF stod(At(toks, token_cnt)).thrown THEN {}
               ELSE {token_cnt + 1}
                    \cup (IF stod(At(toks, token_cnt + 1)).thrown THEN {}
                          ELSE {token_cnt + 2}))
    ELSE {}

\* the token indices (0-based) one iteration of the loop reads
TokenReads(toks, L) ==
    CASE L.state = "OUTSIDE" ->
             {L.cnt} \cup (IF At(toks, L.cnt) = "solid" /\ L.cnt + 1 < Len(toks)
                           THEN {L.cnt + 1} ELSE {})
      [] L.state \in {"SOLID", "FACET", "NORMAL_COORD", "OUTER"} -> {L.cnt}
      [] L.state = "NORMAL" -> CoordinateReads(toks, L.cnt)
      [] L.state = "LOOP" ->
             {L.cnt} \cup (IF At(toks, L.cnt) = "vertex"
                           THEN CoordinateReads(toks, L.cnt + 1) ELSE {})
      [] L.state = "END" -> {}

\* C19: token index safety.  Every token an iteration of to_triangle_mesh
\* reads (the token at cnt, the look-ahead at cnt + 1 after `solid`, the three
\* reads of parse_coordinates), at every index the jumps of +2 and +3 lead to,
\* has an index less than the number of tokens.
C19_TokenIndexSafety ==
    (pc = "run" /\ cnt < Len(tokens))
        => \A i \in TokenReads(tokens, Here) : 0 <= i /\ i < Len(tokens)

\* parse_coordinates is called with fewer than three tokens left, after the
\* jump over the three coordinates of a vertex
C19_Witness ==
    /\ InLoop("LOOP")
    /\ Len(tri.vertices) = 1
    /\ At(tokens, cnt) = "vertex"
    /\ cnt + 3 >= Len(tokens)
    /\ TokenReads(tokens, Here) = {cnt}


----------------------------------------------------------------------------
(* C20 *)

\* every iteration moves the token index forward
IndexIncreases == (pc = "run" /\ pc' = "run") => cnt' > cnt

\* the index never passes the end by more than the cnt++ after case END
IndexBounded == pc = "run" => cnt <= Len(tokens) + 1

\* a call under way has a next step: an iteration, which returns its locals or
\* throws, while cnt < tokens.size(), and the end of the call after that
StepDefined ==
    (pc = "run" /\ cnt < Len(tokens)) => LoopBody(tokens, Here).thrown \in BOOLEAN

\* C20: termination.  Every call of to_triangle_mesh ends, returning or
\* raising an error: each iteration of the loop strictly increases the token
\* index, none leaves it unchanged or decreases it, the index stays within one
\* of the number of tokens, and a call that has not ended has a next step; so
\* the loop runs at most once per token.
C20_Termination ==
    /\ [][IndexIncreases]_vars
    /\ [](IndexBounded /\ StepDefined)

\* a call over two facets has returned after case END set the index to the end
C20_Witness ==
    /\ pc = "returned"
    /\ cnt = Len(tokens) + 1
    /\ mesh.triangle_count = 2
    /\ Len(tokens) > 2 * 21

====
